---- MODULE Spec2Model ----
(***************************************************************************)
(* A model of spmetrics: the netlist transformers of spmetrics/utils.py,   *)
(* the stage sequence of examples/extract_opamp_metrics.py, and the metric *)
(* functions of spmetrics/metrics.py.                                      *)
(*                                                                         *)
(* A netlist is a sequence of text atoms.  An atom is a run of characters  *)
(* that the code never looks inside: a component name, the rest of a       *)
(* component line, a blank, a line break.  The markers that the code       *)
(* searches for are atoms of their own: ".end" is one atom, so that        *)
(* ".ends" is <<".end", "s">> and ".endc" is <<".end", "c">> and a search  *)
(* for ".end" finds all three, as str.index does.                          *)
(***************************************************************************)
EXTENDS Integers, Sequences, FiniteSets, TLC

VARIABLES
    netlist,    \* SpecTransform: the text handed to a transformer
    call,       \* SpecTransform: the transformer called and its arguments
    result,     \* SpecTransform: what the call returned or raised
    base,       \* Spec: base[r], the netlist text run r read from its file
    pc,         \* Spec: pc[r], the next statement of the script in run r
    status,     \* Spec: status[r], "running", "done" or "raised"
    stage,      \* Spec: stage[r], the stage run r is in
    tmpfile,    \* Spec: the content of /tmp/temp_netlist.cir
    files,      \* Spec: files[r], the data files in the working directory of r
    simlog,     \* Spec: simlog[r], the simulator invocations of run r
    metrics,    \* Spec: metrics[r], the metrics run r has computed
    failedAt,   \* Spec: failedAt[r], the stage whose simulator exited non-zero
    logfile,    \* SpecMetric: the data file handed to a metric function
    metric,     \* SpecMetric: the metric function called
    returned    \* SpecMetric: what the call returned or raised

vars == <<netlist, call, result, base, pc, status, stage, tmpfile, files,
          simlog, metrics, failedAt, logfile, metric, returned>>

tvars == <<netlist, call, result>>
mvars == <<logfile, metric, returned>>
ovars == <<base, pc, status, stage, tmpfile, files, simlog, metrics, failedAt>>

----------------------------------------------------------------------------
(* Bounds *)

MaxLines == 3

\* The samples of a frequency trace, after its first line
MaxSamples == 3

\* The rows of a sweep or of a transient trace, after its first line (and
\* between the rows that compute_icmr trims)
MaxRows == 4

----------------------------------------------------------------------------
(* Text *)

NL == "\n"
IND == "    "
BLANK == " "

IsWs(a) == a \in {BLANK, IND}

RECURSIVE Flatten(_)
Flatten(ss) ==
    IF ss = <<>> THEN <<>> ELSE Head(ss) \o Flatten(Tail(ss))

\* sep.join(lines)
RECURSIVE Join(_, _)
Join(lines, sep) ==
    IF lines = <<>> THEN <<>>
    ELSE IF Len(lines) = 1 THEN lines[1]
    ELSE lines[1] \o sep \o Join(Tail(lines), sep)

\* str.index(pat): the first position where pat occurs in t, 0 when it does
\* not occur (Python raises ValueError there).
Index(t, pat) ==
    LET hits == {i \in 1..(Len(t) - Len(pat) + 1) :
                    SubSeq(t, i, i + Len(pat) - 1) = pat}
    IN IF hits = {} THEN 0 ELSE CHOOSE i \in hits : \A j \in hits : i <= j

\* str.splitlines(): the text cut at its line breaks; no empty last line
\* after a final line break.
RECURSIVE SplitLines(_)
SplitLines(t) ==
    IF t = <<>> THEN <<>>
    ELSE LET i == Index(t, <<NL>>)
         IN IF i = 0 THEN <<t>>
            ELSE <<SubSeq(t, 1, i - 1)>> \o SplitLines(SubSeq(t, i + 1, Len(t)))

\* str.startswith(prefix), the prefix being one atom
StartsWith(line, prefix) == Len(line) > 0 /\ line[1] = prefix

\* line.strip()
RECURSIVE Strip(_)
Strip(line) ==
    IF line = <<>> THEN <<>>
    ELSE IF IsWs(line[1]) THEN Strip(Tail(line))
    ELSE IF IsWs(line[Len(line)]) THEN Strip(SubSeq(line, 1, Len(line) - 1))
    ELSE line

\* line.split()[0] if line.strip() else ""
FirstWord(line) == IF Strip(line) = <<>> THEN "" ELSE Strip(line)[1]

\* re.sub(r"\bin1\b", output_node, line)
SubIn1(line, output_node) ==
    [i \in 1..Len(line) |-> IF line[i] = "in1" THEN output_node ELSE line[i]]

ENDC == <<".end", "c">>

NoControlRemoval(t) == t

\* re.sub(r"\.control.*?\.endc", "", netlist, flags=re.DOTALL)
RECURSIVE RemoveControlBlocks(_)
RemoveControlBlocks(t) ==
    LET i == Index(t, <<".control">>)
        rest == SubSeq(t, i + 1, Len(t))
        j == Index(rest, ENDC)
    IN IF i = 0 \/ j = 0 THEN t
       ELSE SubSeq(t, 1, i - 1) \o
            RemoveControlBlocks(SubSeq(rest, j + 2, Len(rest)))

\* netlist[:end_index] + simulation_commands + netlist[end_index:], with
\* end_index the 1-based position i
InsertAt(t, i, commands) ==
    SubSeq(t, 1, i - 1) \o commands \o SubSeq(t, i, Len(t))

\* " ".join(nodes)
NodesStr(nodes) == Join([i \in 1..Len(nodes) |-> <<nodes[i]>>], <<BLANK>>)

\* The f-string of a .control block: the analysis line, and a wrdata line
\* naming the data file and what is recorded.
Commands(analysis, file, recorded) ==
    <<NL, IND, ".control", NL, IND, analysis, NL, IND, "wrdata", BLANK, file,
      BLANK>> \o recorded \o <<NL, IND>> \o ENDC \o <<NL, IND>>

Ok(t) == [ok |-> TRUE, text |-> t, err |-> ""]
Raise(e) == [ok |-> FALSE, text |-> <<>>, err |-> e]

NotFound == "ValueError: substring not found"
EmptyNodes == "ValueError: Output nodes list cannot be empty."
NoneType == "TypeError: argument of type 'NoneType' is not iterable"

----------------------------------------------------------------------------
(* The netlist transformers of spmetrics/utils.py *)

\* Component names that start with "M" or "m"
MosNames == {"M1", "M4"}

IsMos(component) == component \in MosNames

NoTargets == [none |-> TRUE, names |-> {}]
Targets(names) == [none |-> FALSE, names |-> names]

DcCommands(output_node) ==
    Commands("dc Vcm 0 1.8 0.001", "output_dc.dat", NodesStr(output_node))

setup_dc_simulation(text, input_name, output_node) ==
    LET end_index == Index(text, <<".end", NL>>)
    IN IF end_index = 0 THEN Raise(NotFound)
       ELSE Ok(InsertAt(text, end_index, DcCommands(output_node)))

DcOwLine(line) ==
    IF StartsWith(line, "Vcm") THEN <<"Vin1", BLANK, "in1", BLANK, "0 DC {Vcm}">>
    ELSE IF StartsWith(line, "Eidn") THEN <<"Vin2", BLANK, "in2", BLANK, "0 DC 0.9">>
    ELSE IF StartsWith(line, "Eidp") THEN <<NL>>
    ELSE IF StartsWith(line, "Vid") THEN <<NL>>
    ELSE line

DcOwCommands ==
    Commands("dc Vin1 0 1.8 0.0001", "output_dc_ow.dat", <<"out", BLANK, "in1">>)

setup_dc_ow_simulation(text, input_name, output_node) ==
    LET modified_netlist == RemoveControlBlocks(text)
        lines == SplitLines(modified_netlist)
        updated_lines == [i \in 1..Len(lines) |-> DcOwLine(lines[i])]
        updated_netlist == Join(updated_lines, <<NL>>)
        end_index == Index(updated_netlist, <<".end">>)
    IN IF end_index = 0 THEN Raise(NotFound)
       ELSE Ok(InsertAt(updated_netlist, end_index, DcOwCommands))

\* The loop of setup_icmr_simulation and setup_offset_simulation: the lines
\* it keeps.  "component in target_components" is evaluated only for a
\* component that starts with "M" or "m".
IsTarget(line, target_components) ==
    IsMos(FirstWord(line)) /\ FirstWord(line) \in target_components.names

IsLoad(line) == StartsWith(line, "Rl") \/ StartsWith(line, "Cl")

UnityGainLines(lines, target_components, output_node) ==
    LET rewritten == [i \in 1..Len(lines) |->
                        IF IsTarget(lines[i], target_components)
                        THEN SubIn1(lines[i], output_node) ELSE lines[i]]
        Keep(line) == ~IsLoad(line)
    IN SelectSeq(rewritten, Keep)

NoneIterated(lines, target_components) ==
    target_components.none /\ \E i \in 1..Len(lines) : IsMos(FirstWord(lines[i]))

IcmrCommands(output_node) ==
    Commands("dc Vcm 0 1.8 0.001", "output_dc_icmr.dat",
             <<output_node, BLANK, "I(vdd)">>)

setup_icmr_simulation(text, target_components, output_node) ==
    LET modified_netlist == RemoveControlBlocks(text)
        lines == SplitLines(modified_netlist)
        updated_netlist ==
            Join(UnityGainLines(lines, target_components, output_node), <<NL>>)
        end_index == Index(updated_netlist, <<".end">>)
    IN IF NoneIterated(lines, target_components) THEN Raise(NoneType)
       ELSE IF end_index = 0 THEN Raise(NotFound)
       ELSE Ok(InsertAt(updated_netlist, end_index, IcmrCommands(output_node)))

OffsetCommands ==
    Commands("dc Vcm 0 1.8 0.001", "output_dc_offset.dat", <<"out">>)

setup_offset_simulation(text, target_components, negative_input_node, output_node) ==
    LET modified_netlist == RemoveControlBlocks(text)
        lines == SplitLines(modified_netlist)
        updated_netlist ==
            Join(UnityGainLines(lines, target_components, output_node), <<NL>>)
        end_index == Index(updated_netlist, <<".end">>)
    IN IF NoneIterated(lines, target_components) THEN Raise(NoneType)
       ELSE IF end_index = 0 THEN Raise(NotFound)
       ELSE Ok(InsertAt(updated_netlist, end_index, OffsetCommands))

AcCommands(output_node) ==
    Commands("ac dec 10 1 10G", "output_ac.dat", NodesStr(output_node))

setup_ac_simulation(text, input_name, output_node) ==
    LET end_index == Index(text, <<".end", NL>>)
    IN IF end_index = 0 THEN Raise(NotFound)
       ELSE Ok(InsertAt(text, end_index, AcCommands(output_node)))

TransCommands(input_name, output_nodes) ==
    Commands("tran 50n 500u", "output_tran.dat",
             NodesStr(output_nodes) \o <<BLANK, "I(vdd)", BLANK, input_name>>)

setup_trans_simulation(text, input_name, output_nodes) ==
    LET end_index == Index(text, <<".end", NL>>)
    IN IF end_index = 0 THEN Raise(NotFound)
       ELSE IF NodesStr(output_nodes) = <<>> THEN Raise(EmptyNodes)
       ELSE Ok(InsertAt(text, end_index, TransCommands(input_name, output_nodes)))

CommonModeLine(line) ==
    IF StartsWith(line, "Vcm")
    THEN <<"Vcm", BLANK, "cm 0 DC 0.9 SIN(0 1u 10k 0 0) AC 1">>
    ELSE IF StartsWith(line, "Vid") THEN <<"Vid", BLANK, "diffin 0 DC 0">>
    ELSE line

setup_common_mode_simulation(text) ==
    LET lines == SplitLines(text)
    IN Ok(<<BLANK>> \o
          Flatten([i \in 1..Len(lines) |-> CommonModeLine(lines[i]) \o <<NL>>]))

----------------------------------------------------------------------------
(* SpecTransform: one call of one transformer on a netlist drawn from the  *)
(* texts of at most MaxLines lines.                                        *)

TitleLine(r) == <<IF r = 1 THEN "* opamp 1" ELSE "* opamp 2">>
VcmLine == <<"Vcm", BLANK, "cm 0 DC 0.9">>
VidLine == <<"Vid", BLANK, "diffin 0 AC 1">>
M1Line == <<"M1", BLANK, "d1", BLANK, "in1", BLANK, "s s nmos">>
RlLine == <<"Rl", BLANK, "out", BLANK, "0 10k">>
EndsLine == <<".end", "s">>
ControlLine == <<".control">>
EndcLine == ENDC
EndLine == <<".end">>

LineKinds ==
    {VcmLine, VidLine, M1Line, RlLine, EndsLine, ControlLine, EndcLine, EndLine}

LineSeqs == UNION {[1..n -> LineKinds] : n \in 0..MaxLines}

\* The text of the lines, with or without a line break after the last one
TextOf(lines, final_newline) ==
    Join(lines, <<NL>>) \o (IF final_newline THEN <<NL>> ELSE <<>>)

Netlists == {TextOf(ls, nl) : ls \in LineSeqs, nl \in BOOLEAN}

NodeLists == {<<>>, <<"out">>}
TargetArgs == {NoTargets, Targets({"M1"})}
NegativeInputNodes == {"in1", "in2"}
OutputNodes == {"out", "vout"}

NoCall ==
    [op |-> "none", nodes |-> <<>>, targets |-> NoTargets,
     negative_input_node |-> "in1", output_node |-> "out"]
NoResult == Raise("")

TransformCall ==
    /\ netlist \in Netlists
    /\ call = NoCall
    /\ result = NoResult

CallSetupDc ==
    /\ call = NoCall
    /\ \E nodes \in NodeLists :
        /\ call' = [op |-> "setup_dc_simulation", nodes |-> nodes,
                    targets |-> NoTargets,
                    negative_input_node |-> "in1", output_node |-> "out"]
        /\ result' = setup_dc_simulation(netlist, <<"in1", "in2">>, nodes)
    /\ UNCHANGED <<netlist, ovars, mvars>>

CallSetupDcOw ==
    /\ call = NoCall
    /\ call' = [op |-> "setup_dc_ow_simulation", nodes |-> <<"out">>,
                targets |-> NoTargets,
                negative_input_node |-> "in1", output_node |-> "out"]
    /\ result' = setup_dc_ow_simulation(netlist, <<"in1", "in2">>, <<"out">>)
    /\ UNCHANGED <<netlist, ovars, mvars>>

CallSetupIcmr ==
    /\ call = NoCall
    /\ \E targets \in TargetArgs, output_node \in OutputNodes :
        /\ call' = [op |-> "setup_icmr_simulation", nodes |-> <<output_node>>,
                    targets |-> targets,
                    negative_input_node |-> "in1", output_node |-> output_node]
        /\ result' = setup_icmr_simulation(netlist, targets, output_node)
    /\ UNCHANGED <<netlist, ovars, mvars>>

CallSetupOffset ==
    /\ call = NoCall
    /\ \E targets \in TargetArgs, negative_input_node \in NegativeInputNodes,
          output_node \in OutputNodes :
        /\ call' = [op |-> "setup_offset_simulation", nodes |-> <<output_node>>,
                    targets |-> targets,
                    negative_input_node |-> negative_input_node,
                    output_node |-> output_node]
        /\ result' = setup_offset_simulation(netlist, targets,
                                             negative_input_node, output_node)
    /\ UNCHANGED <<netlist, ovars, mvars>>

CallSetupAc ==
    /\ call = NoCall
    /\ \E nodes \in NodeLists :
        /\ call' = [op |-> "setup_ac_simulation", nodes |-> nodes,
                    targets |-> NoTargets,
                    negative_input_node |-> "in1", output_node |-> "out"]
        /\ result' = setup_ac_simulation(netlist, <<"in1", "in2">>, nodes)
    /\ UNCHANGED <<netlist, ovars, mvars>>

CallSetupTrans ==
    /\ call = NoCall
    /\ \E nodes \in NodeLists :
        /\ call' = [op |-> "setup_trans_simulation", nodes |-> nodes,
                    targets |-> NoTargets,
                    negative_input_node |-> "in1", output_node |-> "out"]
        /\ result' = setup_trans_simulation(netlist, "in1", nodes)
    /\ UNCHANGED <<netlist, ovars, mvars>>

CallSetupCommonMode ==
    /\ call = NoCall
    /\ call' = [op |-> "setup_common_mode_simulation", nodes |-> <<>>,
                targets |-> NoTargets,
                negative_input_node |-> "in1", output_node |-> "out"]
    /\ result' = setup_common_mode_simulation(netlist)
    /\ UNCHANGED <<netlist, ovars, mvars>>

NextTransform ==
    \/ CallSetupDc
    \/ CallSetupDcOw
    \/ CallSetupIcmr
    \/ CallSetupOffset
    \/ CallSetupAc
    \/ CallSetupTrans
    \/ CallSetupCommonMode

----------------------------------------------------------------------------
(* The stage sequence of examples/extract_opamp_metrics.py, run by every   *)
(* run of Runs in a working directory of its own.                          *)

Runs == {1, 2}

\* netlist = open("examples/....cir").read(): the circuit of run r, with or
\* without a line break after its terminator
BaseLines(r) == <<TitleLine(r), VcmLine, VidLine, M1Line, EndLine>>

BaseNetlists(r) == {TextOf(BaseLines(r), nl) : nl \in BOOLEAN}

\* The netlist variables of the script
NetlistValue(b, name) ==
    LET dc_netlist == setup_dc_simulation(b, <<"in1", "in2">>, <<"out">>)
        ac_netlist == setup_ac_simulation(b, <<"in1", "in2">>, <<"out">>)
    IN CASE name = "dc_netlist" -> dc_netlist
         [] name = "dc_ow_netlist" ->
                setup_dc_ow_simulation(dc_netlist.text, <<"in1", "in2">>, <<"out">>)
         [] name = "offset_voltage_netlist" ->
                setup_offset_simulation(b, Targets({"M4", "M1"}), "in1", "out")
         [] name = "ac_netlist" -> ac_netlist
         [] name = "icmr_netlist" ->
                setup_icmr_simulation(b, Targets({"M4", "M1"}), "out")
         [] name = "tran_netlist" -> setup_trans_simulation(b, "in1", <<"out">>)
         [] name = "common_mode_netlist" ->
                setup_common_mode_simulation(ac_netlist.text)

\* The statements of the script
SetupStmt(s, name) ==
    [kind |-> "setup", stage |-> s, net |-> name, src |-> "", dst |-> "",
     keys |-> {}, reads |-> <<>>]
RunStmts(s, name) ==
    <<[kind |-> "write", stage |-> s, net |-> name, src |-> "", dst |-> "",
       keys |-> {}, reads |-> <<>>],
      [kind |-> "invoke", stage |-> s, net |-> name, src |-> "", dst |-> "",
       keys |-> {}, reads |-> <<>>]>>
ComputeStmt(s, keys, reads) ==
    [kind |-> "compute", stage |-> s, net |-> "", src |-> "", dst |-> "",
     keys |-> keys, reads |-> reads]
CopyStmt(s, src, dst) ==
    [kind |-> "copy", stage |-> s, net |-> "", src |-> src, dst |-> dst,
     keys |-> {}, reads |-> <<>>]

DcStatements ==
    <<SetupStmt("DC", "dc_netlist"), SetupStmt("DC", "dc_ow_netlist")>>
    \o RunStmts("DC", "dc_ow_netlist")
    \o <<ComputeStmt("DC", {"output_swing"}, <<"output_dc_ow.dat">>)>>

OffsetStatements ==
    <<SetupStmt("Offset", "offset_voltage_netlist")>>
    \o RunStmts("Offset", "offset_voltage_netlist")
    \o <<ComputeStmt("Offset", {"offset_voltage"}, <<"output_dc_offset.dat">>)>>

AcStatements ==
    <<SetupStmt("AC", "ac_netlist")>>
    \o RunStmts("AC", "ac_netlist")
    \o <<ComputeStmt("AC", {"bandwidth"}, <<"output_ac.dat">>),
         ComputeStmt("AC", {"unity_gain_bandwidth"}, <<"output_ac.dat">>),
         ComputeStmt("AC", {"phase_margin"}, <<"output_ac.dat">>),
         ComputeStmt("AC", {"ac_gain"}, <<"output_ac.dat">>)>>

IcmrStatements ==
    <<SetupStmt("ICMR", "icmr_netlist")>>
    \o RunStmts("ICMR", "icmr_netlist")
    \o <<ComputeStmt("ICMR", {"icmr"}, <<"output_dc_icmr.dat">>)>>

TransStatementsOverwriting ==
    <<SetupStmt("Transient", "tran_netlist")>>
    \o RunStmts("Transient", "tran_netlist")
    \o <<ComputeStmt("Transient", {"leakage_power"}, <<"output_tran.dat">>),
         ComputeStmt("Transient", {"ac_gain"}, <<"output_tran.dat">>)>>

TransStatements ==
    <<SetupStmt("Transient", "tran_netlist")>>
    \o RunStmts("Transient", "tran_netlist")
    \o <<ComputeStmt("Transient", {"leakage_power"}, <<"output_tran.dat">>),
         ComputeStmt("Transient", {"tran_gain"}, <<"output_tran.dat">>)>>

CmrrStatements ==
    <<SetupStmt("CommonMode", "common_mode_netlist"),
      CopyStmt("CommonMode", "output_ac.dat", "output_ac_diff.dat"),
      CopyStmt("CommonMode", "output_tran.dat", "output_tran_diff.dat")>>
    \o RunStmts("CommonMode", "common_mode_netlist")
    \o <<CopyStmt("CommonMode", "output_ac.dat", "output_ac_cm.dat"),
         CopyStmt("CommonMode", "output_tran.dat", "output_tran_cm.dat"),
         ComputeStmt("CommonMode", {"cmrr_tran", "cmrr_ac"},
                     <<"output_ac_diff.dat", "output_tran_diff.dat",
                       "output_ac_cm.dat", "output_tran_cm.dat">>)>>

ScriptIcmrBeforeAc ==
    DcStatements \o OffsetStatements \o IcmrStatements \o AcStatements
    \o TransStatements \o CmrrStatements

Script ==
    DcStatements \o OffsetStatements \o AcStatements \o IcmrStatements
    \o TransStatements \o CmrrStatements

\* The data files of a working directory
DataFiles ==
    {"output_dc.dat", "output_dc_ow.dat", "output_dc_offset.dat",
     "output_ac.dat", "output_dc_icmr.dat", "output_tran.dat",
     "output_ac_diff.dat", "output_tran_diff.dat", "output_ac_cm.dat",
     "output_tran_cm.dat"}

\* A data file's content, by where it comes from: the stage whose simulator
\* invocation wrote it, and the run and stage of the netlist simulated.
NoFile == [stage |-> "none", owner |-> 0, net |-> "none"]

\* ngspice -b on a netlist: the data files its wrdata lines name
OutputFiles(text) ==
    {text[i] : i \in {j \in 3..Len(text) : text[j - 2] = "wrdata"}}

ExitCodes == {0, 1}

IgnoresExitCode(returncode) == FALSE

\* subprocess.run(..., check=True): raises CalledProcessError on a non-zero
\* exit code
CheckRaises(returncode) == returncode # 0

InitOrchestrator ==
    /\ base \in [Runs -> UNION {BaseNetlists(r) : r \in Runs}]
    /\ \A r \in Runs : base[r] \in BaseNetlists(r)
    /\ pc = [r \in Runs |-> 1]
    /\ status = [r \in Runs |-> "running"]
    /\ stage = [r \in Runs |-> "Idle"]
    /\ tmpfile = [owner |-> 0, stage |-> "none", text |-> <<>>]
    /\ files = [r \in Runs |-> [f \in DataFiles |-> NoFile]]
    /\ simlog = [r \in Runs |-> <<>>]
    /\ metrics = [r \in Runs |-> <<>>]
    /\ failedAt = [r \in Runs |-> "none"]

IdleOrchestrator ==
    /\ base = <<>>
    /\ pc = <<>>
    /\ status = <<>>
    /\ stage = <<>>
    /\ tmpfile = <<>>
    /\ files = <<>>
    /\ simlog = <<>>
    /\ metrics = <<>>
    /\ failedAt = <<>>

IdleTransform ==
    /\ netlist = <<>>
    /\ call = NoCall
    /\ result = NoResult

Running(r) == status[r] = "running" /\ pc[r] <= Len(Script)

Stmt(r) == Script[pc[r]]

Advance(r) ==
    /\ pc' = [pc EXCEPT ![r] = @ + 1]
    /\ stage' = [stage EXCEPT ![r] = Stmt(r).stage]
    /\ status' = status

\* An exception leaves the script
Abort(r) ==
    /\ pc' = pc
    /\ stage' = [stage EXCEPT ![r] = Stmt(r).stage]
    /\ status' = [status EXCEPT ![r] = "raised"]

\* x_netlist = setup_x_simulation(...)
Setup(r) ==
    /\ Running(r)
    /\ Stmt(r).kind = "setup"
    /\ IF NetlistValue(base[r], Stmt(r).net).ok THEN Advance(r) ELSE Abort(r)
    /\ UNCHANGED <<tvars, mvars, base, tmpfile, files, simlog, metrics, failedAt>>

\* run_ngspice_simulation: open("/tmp/temp_netlist.cir", "w"), f.write(netlist)
WriteNetlist(r) ==
    /\ Running(r)
    /\ Stmt(r).kind = "write"
    /\ tmpfile' = [owner |-> r, stage |-> Stmt(r).stage,
                   text |-> NetlistValue(base[r], Stmt(r).net).text]
    /\ Advance(r)
    /\ UNCHANGED <<tvars, mvars, base, files, simlog, metrics, failedAt>>

\* run_ngspice_simulation: subprocess.run(["ngspice", ...], check=True), in
\* the working directory of r
InvokeNgspice(r) ==
    /\ Running(r)
    /\ Stmt(r).kind = "invoke"
    /\ \E returncode \in ExitCodes :
        /\ simlog' = [simlog EXCEPT ![r] =
                        Append(@, [stage |-> Stmt(r).stage,
                                   owner |-> tmpfile.owner,
                                   net |-> tmpfile.stage,
                                   returncode |-> returncode])]
        /\ files' = [files EXCEPT ![r] =
                        [f \in DataFiles |->
                            IF returncode = 0 /\ f \in OutputFiles(tmpfile.text)
                            THEN [stage |-> Stmt(r).stage,
                                  owner |-> tmpfile.owner,
                                  net |-> tmpfile.stage]
                            ELSE @[f]]]
        /\ failedAt' = [failedAt EXCEPT ![r] =
                            IF returncode # 0 THEN Stmt(r).stage ELSE @]
        /\ IF CheckRaises(returncode) THEN Abort(r) ELSE Advance(r)
    /\ UNCHANGED <<tvars, mvars, base, tmpfile, metrics>>

\* shutil.copy(src, dst)
Copy(r) ==
    /\ Running(r)
    /\ Stmt(r).kind = "copy"
    /\ IF files[r][Stmt(r).src] = NoFile
       THEN Abort(r) /\ files' = files
       ELSE Advance(r) /\
            files' = [files EXCEPT ![r][Stmt(r).dst] = files[r][Stmt(r).src]]
    /\ UNCHANGED <<tvars, mvars, base, tmpfile, simlog, metrics, failedAt>>

\* x = compute_x(file, ...): raises when a file is missing, and may raise on
\* what the file holds
Compute(r) ==
    /\ Running(r)
    /\ Stmt(r).kind = "compute"
    /\ LET reads == Stmt(r).reads
           value == [i \in 1..Len(reads) |-> files[r][reads[i]]]
           missing == \E i \in 1..Len(reads) : value[i] = NoFile
       IN \E raises \in BOOLEAN :
            IF missing \/ raises
            THEN Abort(r) /\ metrics' = metrics
            ELSE Advance(r) /\
                 metrics' = [metrics EXCEPT ![r] =
                    [k \in (DOMAIN @) \cup Stmt(r).keys |->
                        IF k \in Stmt(r).keys THEN value ELSE @[k]]]
    /\ UNCHANGED <<tvars, mvars, base, tmpfile, files, simlog, failedAt>>

\* print(tabulate(...)): the script ends
PrintTable(r) ==
    /\ status[r] = "running"
    /\ pc[r] = Len(Script) + 1
    /\ status' = [status EXCEPT ![r] = "done"]
    /\ stage' = [stage EXCEPT ![r] = "Done"]
    /\ UNCHANGED <<tvars, mvars, base, pc, tmpfile, files, simlog, metrics, failedAt>>

Next ==
    \E r \in Runs :
        \/ Setup(r)
        \/ WriteNetlist(r)
        \/ InvokeNgspice(r)
        \/ Copy(r)
        \/ Compute(r)
        \/ PrintTable(r)

----------------------------------------------------------------------------
(* Numbers.  The cells of a data file are integers in the unit of their    *)
(* column: a frequency in Hz, a voltage in tenths of a volt, a current in  *)
(* tenths of a microampere.  What a metric function computes from them is  *)
(* an exact fraction, or one of the values that a float64 division by zero *)
(* yields (numpy warns there and does not raise).                          *)

Abs(x) == IF x < 0 THEN -x ELSE x

Fraction(num, den) ==
    IF den < 0 THEN [k |-> "finite", num |-> -num, den |-> -den]
    ELSE [k |-> "finite", num |-> num, den |-> den]

Whole(n) == Fraction(n, 1)

NaN == [k |-> "nan", num |-> 0, den |-> 0]
Infinity(sign) == [k |-> "inf", num |-> sign, den |-> 0]

\* num / den of float64
Divide(num, den) ==
    IF den # 0 THEN Fraction(num, den)
    ELSE IF num = 0 THEN NaN
    ELSE Infinity(IF num > 0 THEN 1 ELSE -1)

PlusQuotient(n, q) == q

\* n + q of float64
Plus(n, q) ==
    IF q.k = "finite" THEN Fraction(n * q.den + q.num, q.den) ELSE q

Less(a, b) == a.num * b.den < b.num * a.den

\* What a call of a metric function yields
Returns(x) == [kind |-> "value", err |-> "", x |-> x, y |-> Whole(0)]
ReturnsPair(x, y) == [kind |-> "pair", err |-> "", x |-> x, y |-> y]
ReturnsNone == [kind |-> "none", err |-> "", x |-> Whole(0), y |-> Whole(0)]
Raises(e) == [kind |-> "raised", err |-> e, x |-> Whole(0), y |-> Whole(0)]

LayoutError == "ValueError: The input file must have either 3 or 6 columns."
ColumnsError ==
    "ValueError: Log file must have at least 4 columns with current in the 4th column."
IndexError == "IndexError"
TypeError == "TypeError: unsupported operand type(s): 'float' and 'NoneType'"
EmptyError == "ValueError: zero-size array to reduction operation maximum"
Unbound(name) == "UnboundLocalError: " \o name

\* indices[0] and indices[-1] of np.where(...)[0], the indices in ascending
\* order
First(indices) == CHOOSE i \in indices : \A j \in indices : i <= j
Last(indices) == CHOOSE i \in indices : \A j \in indices : j <= i

\* np.max and np.min of the cells at the indices
MaxOf(cells, indices) ==
    CHOOSE x \in {cells[i] : i \in indices} : \A i \in indices : cells[i] <= x
MinOf(cells, indices) ==
    CHOOSE x \in {cells[i] : i \in indices} : \A i \in indices : x <= cells[i]

----------------------------------------------------------------------------
(* Data files.  A file is the lines that wrdata wrote, each line a row of  *)
(* cells; np.genfromtxt drops the first skip_header lines, and yields a    *)
(* one-dimensional array when at most one line is left.                    *)

genfromtxt(file, skip_header) ==
    LET rows == SubSeq(file.lines, skip_header + 1, Len(file.lines))
    IN [rows |-> rows, ndim |-> IF Len(rows) >= 2 THEN 2 ELSE 1]

\* data.shape[1]
Shape1(data) == Len(data.rows[1])

\* data[:, c], c counted from 0
Column(data, c) == [i \in 1..Len(data.rows) |-> data.rows[i][c + 1]]

\* data[:, c] + 1j * data[:, c + 1]
Complex(data, c) ==
    [i \in 1..Len(data.rows) |->
        [re |-> data.rows[i][c + 1], im |-> data.rows[i][c + 2]]]

\* np.abs of a complex value on an axis, in tenths
Magnitude(v) == Abs(v.re) + Abs(v.im)

\* log10 of a magnitude in tenths
Log10Tenths(m) ==
    CASE m = 1 -> -1
      [] m = 10 -> 0
      [] m = 100 -> 1
      [] m = 1000 -> 2

\* 20 * np.log10(np.abs(v))
Db(v) == 20 * Log10Tenths(Magnitude(v))

\* np.degrees(np.angle(v)) of a complex value on an axis
Phase(v) ==
    IF v.im = 0 THEN (IF v.re >= 0 THEN 0 ELSE 180)
    ELSE IF v.im > 0 THEN 90 ELSE -90

\* 20 * np.log10(v) >= threshold: numpy orders complex values by their real
\* part and then by their imaginary part, which has the sign of the phase
AtLeast(v, threshold) ==
    Db(v) > threshold \/ (Db(v) = threshold /\ Phase(v) >= 0)

----------------------------------------------------------------------------
(* The frequency-trace metric functions of spmetrics/metrics.py *)

\* The selected output signal: columns 1-2 of a 3-column trace, columns 4-5
\* of a 6-column trace
Selected(data, num_columns) ==
    Complex(data, IF num_columns = 3 THEN 1 ELSE 4)

SpanReversed(f_l, f_h) == f_l - f_h

\* bandwidth = f_h - f_l
Span(f_l, f_h) == f_h - f_l

compute_bandwidth(file) ==
    LET data_ac == genfromtxt(file, 1)
        num_columns == Shape1(data_ac)
        frequency == Column(data_ac, 0)
        v_d == Selected(data_ac, num_columns)
        gain == Db(v_d[1])
        half_power_point == gain - 3
        indices == {i \in 1..Len(v_d) : AtLeast(v_d[i], half_power_point)}
    IN IF data_ac.ndim = 1 THEN Raises(IndexError)
       ELSE IF num_columns \notin {3, 6} THEN Raises(Unbound("gain"))
       ELSE IF indices # {}
       THEN Returns(Whole(Span(frequency[First(indices)],
                               frequency[Last(indices)])))
       ELSE Returns(Whole(0))

PrecedingClamped(cross_idx, n) == IF cross_idx = 1 THEN 1 ELSE cross_idx - 1

\* cross_idx - 1 as an index of n samples: before the first sample, the index
\* -1 is the last one
Preceding(cross_idx, n) == IF cross_idx = 1 THEN n ELSE cross_idx - 1

compute_unity_gain_bandwidth(file) ==
    LET data_ac == genfromtxt(file, 1)
        num_columns == Shape1(data_ac)
        frequency == Column(data_ac, 0)
        v_d == Selected(data_ac, num_columns)
        mag == [i \in 1..Len(v_d) |-> Db(v_d[i])]
        below == {i \in 1..Len(mag) : mag[i] <= 0}
        cross_idx == First(below)
        before == Preceding(cross_idx, Len(mag))
        f1 == frequency[before]
        f2 == frequency[cross_idx]
        g1 == mag[before]
        g2 == mag[cross_idx]
    IN IF data_ac.ndim = 1 THEN Raises(IndexError)
       ELSE IF num_columns \notin {3, 6} THEN Raises(Unbound("output"))
       ELSE IF below = {} THEN Raises(IndexError)
       ELSE Returns(Plus(f1, Divide((0 - g1) * (f2 - f1), g2 - g1)))

compute_phase_margin(file) ==
    LET data_ac == genfromtxt(file, 1)
        num_columns == Shape1(data_ac)
        v_d == Selected(data_ac, num_columns)
        gain_db_at_0_dB == [i \in 1..Len(v_d) |-> Abs(Db(v_d[i]) - 0)]
        \* np.argmin: the first index of the least value
        index_at_0_dB ==
            First({i \in 1..Len(v_d) :
                    \A j \in 1..Len(v_d) :
                        gain_db_at_0_dB[i] <= gain_db_at_0_dB[j]})
        phase_at_0_dB == Phase(v_d[index_at_0_dB])
    IN IF data_ac.ndim = 1 THEN Raises(IndexError)
       ELSE IF num_columns \notin {3, 6} THEN Raises(Unbound("v_d"))
       ELSE Returns(Whole(phase_at_0_dB - (-180)))

\* tolerance = 15
Tolerance == 15

\* np.isclose(phase, target, atol=tolerance) of whole degrees
IsClose(phase, target) == Abs(phase - target) <= Tolerance

\* compute_phase_margin of spmetrics/extractor.py
extractor_compute_phase_margin(file) ==
    LET data_ac == genfromtxt(file, 1)
        num_columns == Shape1(data_ac)
        v_d == Selected(data_ac, num_columns)
        gain_db_at_0_dB == [i \in 1..Len(v_d) |-> Abs(Db(v_d[i]) - 0)]
        index_at_0_dB ==
            First({i \in 1..Len(v_d) :
                    \A j \in 1..Len(v_d) :
                        gain_db_at_0_dB[i] <= gain_db_at_0_dB[j]})
        phase_at_0_dB == Phase(v_d[index_at_0_dB])
        initial_phase == Phase(v_d[1])
    IN IF data_ac.ndim = 1 THEN Raises(IndexError)
       ELSE IF num_columns \notin {3, 6} THEN Raises(Unbound("v_d"))
       ELSE IF IsClose(initial_phase, 180) THEN Returns(Whole(phase_at_0_dB))
       ELSE IF IsClose(initial_phase, 0)
       THEN Returns(Whole(180 - Abs(phase_at_0_dB)))
       ELSE Returns(Whole(0))

compute_ac_gain(file) ==
    LET data_ac == genfromtxt(file, 1)
        num_columns == Shape1(data_ac)
        v_d == Selected(data_ac, num_columns)
    IN IF data_ac.ndim = 1 THEN Raises(IndexError)
       ELSE IF num_columns \notin {3, 6} THEN Raises(LayoutError)
       ELSE Returns(Whole(Db(v_d[1])))

\* np.max(out) - np.min(out) of column 1
Altitude(data) ==
    LET out == Column(data, 1)
    IN MaxOf(out, DOMAIN out) - MinOf(out, DOMAIN out)

DbOfFirst(a, b) ==
    IF a = 0 THEN Infinity(-1) ELSE Whole(20 * Log10Tenths(a))

\* 20 * np.log10(np.abs(a / b)) of the magnitudes a and b
DbRatio(a, b) ==
    IF b = 0 THEN (IF a = 0 THEN NaN ELSE Infinity(1))
    ELSE IF a = 0 THEN Infinity(-1)
    ELSE Whole(20 * (Log10Tenths(a) - Log10Tenths(b)))

CmColumnOwn(num_columns, cm_columns) == IF cm_columns = 3 THEN 1 ELSE 4

\* The first column of vc: "if num_columns == 3 ... elif num_columns == 6", of
\* the num_columns of the differential file
CmColumn(num_columns, cm_columns) == IF num_columns = 3 THEN 1 ELSE 4

compute_cmrr(ac_diff_file, tran_diff_file, ac_cm_file, tran_cm_file) ==
    LET data_ac_vd == genfromtxt(ac_diff_file, 0)
        num_columns == Shape1(data_ac_vd)
        vd == Complex(data_ac_vd, IF num_columns = 3 THEN 1 ELSE 4)
        data_tran_vd == genfromtxt(tran_diff_file, 0)
        data_ac_vc == genfromtxt(ac_cm_file, 0)
        c == CmColumn(num_columns, Shape1(data_ac_vc))
        vc == Complex(data_ac_vc, c)
        data_tran_vc == genfromtxt(tran_cm_file, 0)
        cmrr_tran == DbRatio(Altitude(data_tran_vd), Altitude(data_tran_vc))
        cmrr_ac == DbRatio(Magnitude(vd[1]), Magnitude(vc[1]))
    IN IF data_ac_vd.ndim = 1 THEN Raises(IndexError)
       ELSE IF data_tran_vd.ndim = 1 \/ Shape1(data_tran_vd) < 2
       THEN Raises(IndexError)
       ELSE IF num_columns \in {3, 6}
               /\ (data_ac_vc.ndim = 1 \/ Shape1(data_ac_vc) < c + 2)
       THEN Raises(IndexError)
       ELSE IF data_tran_vc.ndim = 1 \/ Shape1(data_tran_vc) < 2
       THEN Raises(IndexError)
       ELSE IF num_columns \notin {3, 6} THEN Raises(Unbound("vd"))
       ELSE ReturnsPair(cmrr_tran, cmrr_ac)

TranLayoutError == "ValueError: The input file must have 2 columns."

\* 20 * np.log10(a / 0.000002) of a swing of a tenths of a volt, which is
\* 20 * log10(a / 10) + 20 * log10(500000), to the hundredth of a dB
DbOver2uV(a) ==
    IF a = 0 THEN Infinity(-1)
    ELSE Fraction(2000 * Log10Tenths(a) + 11398, 100)

compute_tran_gain(file) ==
    LET data_tran == genfromtxt(file, 1)
        num_columns == Shape1(data_tran)
    IN IF data_tran.ndim = 1 THEN Raises(IndexError)
       ELSE IF num_columns = 6 THEN Returns(DbOver2uV(Altitude(data_tran)))
       ELSE Raises(TranLayoutError)

----------------------------------------------------------------------------
(* The sweep and transient metric functions of spmetrics/metrics.py *)

\* np.gradient(output, in1) at index i, in1 the uniformly spaced values of
\* the swept source: one-sided differences at the two ends, central
\* differences between them
Gradient(output, in1, i) ==
    LET h == in1[2] - in1[1]
        n == Len(output)
    IN IF i = 1 THEN Fraction(output[2] - output[1], h)
       ELSE IF i = n THEN Fraction(output[n] - output[n - 1], h)
       ELSE Fraction(output[i + 1] - output[i - 1], 2 * h)

\* np.abs(np.where(np.abs(d) < epsilon, epsilon, d)), the epsilon 1e-10: a
\* difference quotient of cells is below it only when it is 0
Clamped(d) ==
    IF d.num = 0 THEN [k |-> "epsilon", num |-> 0, den |-> 1]
    ELSE Fraction(Abs(d.num), d.den)

RECURSIVE Power(_, _)
Power(x, n) == IF n = 0 THEN 1 ELSE x * Power(x, n - 1)

GainAtLeast(d, d_mid) ==
    IF d.k = "epsilon" THEN FALSE
    ELSE IF d_mid.k = "epsilon" THEN TRUE
    ELSE Power(d.num, 5) * Power(d_mid.den, 4)
            >= Power(d_mid.num, 4) * Power(d.den, 5)

\* 20 * log10(d) > 0.8 * (20 * log10(d_mid)), which is d^5 > d_mid^4, of
\* clamped magnitudes (1e-50 > 1e-40 is false)
GainAbove(d, d_mid) ==
    IF d.k = "epsilon" THEN FALSE
    ELSE IF d_mid.k = "epsilon" THEN TRUE
    ELSE Power(d.num, 5) * Power(d_mid.den, 4)
            > Power(d_mid.num, 4) * Power(d.den, 5)

\* The value 0.9 of "in1 == 0.9" and "input_vals == 0.9", in tenths
MidRail == 9

compute_output_swing(file) ==
    LET data_dc == genfromtxt(file, 1)
        output == Column(data_dc, 1)
        in1 == Column(data_dc, 3)
        d_output_d_in1 ==
            [i \in 1..Len(output) |-> Clamped(Gradient(output, in1, i))]
        max_index == {i \in 1..Len(in1) : in1[i] = MidRail}
        gain_mid == d_output_d_in1[First(max_index)]
        indices == {i \in 1..Len(output) :
                        GainAbove(d_output_d_in1[i], gain_mid)}
    IN IF data_dc.ndim = 1 THEN Raises(IndexError)
       ELSE IF Shape1(data_dc) < 4 THEN Returns(Whole(0))
       ELSE IF max_index = {} THEN Raises(TypeError)
       ELSE IF indices # {}
       THEN Returns(Whole(MaxOf(output, indices) - MinOf(output, indices)))
       ELSE Returns(Whole(0))

\* The 19 of data_dc[19:-19, ...]
Trim == 19

Untrimmed(rows) == rows

\* rows[19:-19]
Trimmed(rows) == SubSeq(rows, Trim + 1, Len(rows) - Trim)

compute_offset(file) ==
    LET data_dc == genfromtxt(file, 1)
        rows == Trimmed(data_dc.rows)
        input == [i \in 1..Len(rows) |-> rows[i][1]]
        output == [i \in 1..Len(rows) |-> rows[i][2]]
        voff == [i \in 1..Len(rows) |-> Abs(output[i] - input[i])]
    IN IF data_dc.ndim = 1 THEN Raises(IndexError)
       ELSE IF rows = <<>> THEN Raises(EmptyError)
       ELSE Returns(Whole(MaxOf(voff, DOMAIN voff)))

\* The supply rail 1.8, in tenths
Rail == 18

\* np.max([a, b]) and np.min([a, b])
Larger(a, b) == IF a >= b THEN a ELSE b
Smaller(a, b) == IF a <= b THEN a ELSE b

compute_icmr(file) ==
    LET data_dc == genfromtxt(file, 1)
        rows == Trimmed(data_dc.rows)
        input_vals == [i \in 1..Len(rows) |-> rows[i][1]]
        output_vals == [i \in 1..Len(rows) |-> rows[i][2]]
        Idd == [i \in 1..Len(rows) |-> Abs(rows[i][4])]
        indices == {i \in 1..Len(rows) : input_vals[i] = MidRail}
        iquie == Idd[First(indices)]
        voff == [i \in 1..Len(rows) |-> Abs(output_vals[i] - input_vals[i])]
        voff_max == MaxOf(voff, DOMAIN voff)
        \* Idd > iquie - iquie * 0.1 and voff < voff_max * 0.9
        indices_idd == {i \in 1..Len(rows) : 10 * Idd[i] > 9 * iquie}
        indices_voff == {i \in 1..Len(rows) : 10 * voff[i] < 9 * voff_max}
        ic_min_idd == input_vals[First(indices_idd)]
        ic_min_voff == input_vals[First(indices_voff)]
        ic_max_idd == input_vals[Last(indices_idd)]
        ic_max_voff == input_vals[Last(indices_voff)]
        ic_min == Larger(ic_min_idd, ic_min_voff)
        ic_max == Smaller(ic_max_idd, ic_max_voff)
    IN IF data_dc.ndim = 1 \/ Shape1(data_dc) < 4 THEN Raises(IndexError)
       ELSE IF rows = <<>> THEN Raises(EmptyError)
       ELSE IF indices = {} THEN Raises(TypeError)
       ELSE IF indices_idd # {} /\ indices_voff # {}
       THEN Returns(Whole(ic_max - ic_min))
       ELSE IF indices_idd # {} THEN Returns(Whole(Rail - ic_min_idd))
       ELSE Returns(Whole(0))

\* threshold = 5e-7, in tenths of a microampere
Threshold == 5

\* vdd: float = 1.8, in tenths
Vdd == 18

IsStaticStrict(current_diff) == current_diff < Threshold

\* current_diff <= threshold
IsStatic(current_diff) == current_diff <= Threshold

RECURSIVE SumOf(_, _)
SumOf(cells, indices) ==
    IF indices = {} THEN 0
    ELSE LET i == First(indices)
         IN cells[i] + SumOf(cells, indices \ {i})

compute_leakage_power(file) ==
    LET data_trans == genfromtxt(file, 1)
        iout == Column(data_trans, 3)
        static == {i \in 2..Len(iout) : IsStatic(Abs(iout[i] - iout[i - 1]))}
        \* np.mean(static_currents) * vdd
        Ileak_vdd == Fraction(SumOf(iout, static) * Vdd, Cardinality(static))
    IN IF data_trans.ndim = 1 \/ Shape1(data_trans) < 4
       THEN Raises(ColumnsError)
       ELSE IF static = {} THEN ReturnsNone
       ELSE Returns(Fraction(Abs(Ileak_vdd.num), Ileak_vdd.den))

----------------------------------------------------------------------------
(* SpecMetric: one call of one metric function on a data file drawn from   *)
(* the files of at most MaxSamples samples, or MaxRows rows, after the     *)
(* first line.                                                             *)

\* The column counts of a frequency table: one output node, a table that is
\* no frequency trace, two output nodes
Layouts == {3, 4, 6}

Frequencies == {10, 100, 1000}

\* The real and the imaginary part of the selected signal, in tenths
SignalValues == {<<100, 0>>, <<10, 0>>, <<1, 0>>, <<-10, 0>>, <<0, 10>>}

\* The signal of the other output node
OtherSignal == 1

\* A line of "wrdata output_ac.dat ..."
AcRow(columns, f, v) ==
    CASE columns = 3 -> <<f, v[1], v[2]>>
      [] columns = 4 -> <<f, v[1], f, OtherSignal>>
      [] columns = 6 -> <<f, OtherSignal, 0, f, v[1], v[2]>>

\* The first line of a frequency trace, at 1 Hz
FirstAcLine(columns) == AcRow(columns, 1, <<100, 0>>)

\* The frequency traces of n samples
AcFiles(columns, n) ==
    {[kind |-> "ac",
      lines |-> <<FirstAcLine(columns)>> \o
                [i \in 1..n |-> AcRow(columns, p[i][1], p[i][2])]] :
     p \in [1..n -> Frequencies \X SignalValues]}

\* The column counts of a sweep table: the output alone, the output and in1
SweepLayouts == {2, 4}

\* The value of the swept source in the second line, in tenths
SweepStarts == {8, 9, 10}

OutputValues == {0, 2, 3}

\* A line of "wrdata output_dc_ow.dat out in1"
SweepRow(columns, in1, out) ==
    IF columns = 2 THEN <<in1, out>> ELSE <<in1, out, in1, in1>>

\* The sweeps of n rows after the first line
SweepFiles(columns, start, n) ==
    {[kind |-> "sweep",
      lines |-> [i \in 1..(n + 1) |->
                   SweepRow(columns, start + i - 2,
                            IF i = 1 THEN 0 ELSE outs[i - 1])]] :
     outs \in [1..n -> OutputValues]}

\* output - input, in tenths, and I(vdd), in tenths of a microampere
Offsets == {0, 1}
SupplyCurrents == {0, -10}

\* A line of "wrdata output_dc_icmr.dat out I(vdd)"
IcmrRow(input, offset, idd) == <<input, input + offset, input, idd>>

\* The rows at the two ends of the sweep
LowRow == IcmrRow(0, 9, 0)
HighRow == IcmrRow(18, -9, 0)

Edge(row, n) == [i \in 1..n |-> row]

\* The sweeps of n rows between the two ends
IcmrFiles(edge, start, n) ==
    {[kind |-> "icmr",
      lines |-> <<LowRow>> \o Edge(LowRow, edge) \o
                [i \in 1..n |-> IcmrRow(start + i - 1, p[i][1], p[i][2])] \o
                Edge(HighRow, edge)] :
     p \in [1..n -> Offsets \X SupplyCurrents]}

\* The column counts of a transient table: the output alone, the output,
\* I(vdd) and in1
TranLayouts == {2, 6}

\* I(vdd), in tenths of a microampere
Currents == {-6, 0, 5}

\* A line of "wrdata output_tran.dat out I(vdd) in1"
TranRow(columns, t, out, i) ==
    IF columns = 2 THEN <<t, out>> ELSE <<t, out, t, i, t, MidRail>>

\* The transient traces of n rows after the first line
TranFiles(columns, n) ==
    {[kind |-> "tran",
      lines |-> [i \in 1..(n + 1) |->
                   TranRow(columns, i - 1, 0,
                           IF i = 1 THEN 0 ELSE is[i - 1])]] :
     is \in [1..n -> Currents]}

\* The other files of compute_cmrr: the transient traces of the two drives
\* and the frequency trace of the common-mode drive
TranDiffFile ==
    [kind |-> "tran",
     lines |-> <<TranRow(6, 0, 0, 0), TranRow(6, 1, 90, 0),
                 TranRow(6, 2, 100, 0)>>]
TranCmFile ==
    [kind |-> "tran",
     lines |-> <<TranRow(6, 0, 0, 0), TranRow(6, 1, 0, 0),
                 TranRow(6, 2, 1, 0)>>]
AcCmFiles ==
    {[kind |-> "ac",
      lines |-> <<AcRow(p[1], 1, <<p[2], 0>>), AcRow(p[1], 10, <<1, 0>>),
                  AcRow(p[1], 100, <<1, 0>>)>>] :
     p \in {<<3, 1>>, <<3, 10>>, <<6, 10>>}}

NoLogFile == [kind |-> "none", lines |-> <<>>]
NoMetric == [fn |-> "none", others |-> <<>>]
NoReturn == Raises("")

MetricCall ==
    /\ \/ \E columns \in Layouts, n \in 0..MaxSamples :
              logfile \in AcFiles(columns, n)
       \/ \E start \in SweepStarts, n \in 0..MaxRows :
              \/ \E columns \in SweepLayouts :
                     logfile \in SweepFiles(columns, start, n)
              \/ \E edge \in {0, Trim} : logfile \in IcmrFiles(edge, start, n)
       \/ \E columns \in TranLayouts, n \in 0..MaxRows :
              logfile \in TranFiles(columns, n)
       \/ logfile \in {TranDiffFile, TranCmFile}
    /\ metric = NoMetric
    /\ returned = NoReturn

IdleMetric ==
    /\ logfile = NoLogFile
    /\ metric = NoMetric
    /\ returned = NoReturn

CallComputeBandwidth ==
    /\ metric = NoMetric
    /\ logfile.kind = "ac"
    /\ metric' = [fn |-> "compute_bandwidth", others |-> <<>>]
    /\ returned' = compute_bandwidth(logfile)
    /\ UNCHANGED <<logfile, tvars, ovars>>

CallComputeUnityGainBandwidth ==
    /\ metric = NoMetric
    /\ logfile.kind = "ac"
    /\ metric' = [fn |-> "compute_unity_gain_bandwidth", others |-> <<>>]
    /\ returned' = compute_unity_gain_bandwidth(logfile)
    /\ UNCHANGED <<logfile, tvars, ovars>>

CallComputePhaseMargin ==
    /\ metric = NoMetric
    /\ logfile.kind = "ac"
    /\ metric' = [fn |-> "compute_phase_margin", others |-> <<>>]
    /\ returned' = compute_phase_margin(logfile)
    /\ UNCHANGED <<logfile, tvars, ovars>>

CallExtractorComputePhaseMargin ==
    /\ metric = NoMetric
    /\ logfile.kind = "ac"
    /\ metric' = [fn |-> "extractor.compute_phase_margin", others |-> <<>>]
    /\ returned' = extractor_compute_phase_margin(logfile)
    /\ UNCHANGED <<logfile, tvars, ovars>>

CallComputeAcGain ==
    /\ metric = NoMetric
    /\ logfile.kind = "ac"
    /\ metric' = [fn |-> "compute_ac_gain", others |-> <<>>]
    /\ returned' = compute_ac_gain(logfile)
    /\ UNCHANGED <<logfile, tvars, ovars>>

CallComputeCmrr ==
    /\ metric = NoMetric
    /\ logfile.kind = "ac"
    /\ \E ac_cm_file \in AcCmFiles :
        /\ metric' = [fn |-> "compute_cmrr",
                      others |-> <<TranDiffFile, ac_cm_file, TranCmFile>>]
        /\ returned' = compute_cmrr(logfile, TranDiffFile, ac_cm_file,
                                    TranCmFile)
    /\ UNCHANGED <<logfile, tvars, ovars>>

CallComputeOutputSwing ==
    /\ metric = NoMetric
    /\ logfile.kind = "sweep"
    /\ metric' = [fn |-> "compute_output_swing", others |-> <<>>]
    /\ returned' = compute_output_swing(logfile)
    /\ UNCHANGED <<logfile, tvars, ovars>>

CallComputeOffset ==
    /\ metric = NoMetric
    /\ logfile.kind = "icmr"
    /\ metric' = [fn |-> "compute_offset", others |-> <<>>]
    /\ returned' = compute_offset(logfile)
    /\ UNCHANGED <<logfile, tvars, ovars>>

CallComputeTranGain ==
    /\ metric = NoMetric
    /\ logfile.kind = "tran"
    /\ metric' = [fn |-> "compute_tran_gain", others |-> <<>>]
    /\ returned' = compute_tran_gain(logfile)
    /\ UNCHANGED <<logfile, tvars, ovars>>

CallComputeIcmr ==
    /\ metric = NoMetric
    /\ logfile.kind = "icmr"
    /\ metric' = [fn |-> "compute_icmr", others |-> <<>>]
    /\ returned' = compute_icmr(logfile)
    /\ UNCHANGED <<logfile, tvars, ovars>>

CallComputeLeakagePower ==
    /\ metric = NoMetric
    /\ logfile.kind = "tran"
    /\ metric' = [fn |-> "compute_leakage_power", others |-> <<>>]
    /\ returned' = compute_leakage_power(logfile)
    /\ UNCHANGED <<logfile, tvars, ovars>>

NextMetric ==
    \/ CallComputeBandwidth
    \/ CallComputeUnityGainBandwidth
    \/ CallComputePhaseMargin
    \/ CallExtractorComputePhaseMargin
    \/ CallComputeAcGain
    \/ CallComputeCmrr
    \/ CallComputeOutputSwing
    \/ CallComputeOffset
    \/ CallComputeTranGain
    \/ CallComputeIcmr
    \/ CallComputeLeakagePower

Init == InitOrchestrator /\ IdleTransform /\ IdleMetric

Spec == Init /\ [][Next]_vars

InitTransform == TransformCall /\ IdleOrchestrator /\ IdleMetric

SpecTransform == InitTransform /\ [][NextTransform]_vars

InitMetric == MetricCall /\ IdleTransform /\ IdleOrchestrator

SpecMetric == InitMetric /\ [][NextMetric]_vars

----------------------------------------------------------------------------
(* What the claims about the transformers speak of *)

Injecting ==
    {"setup_dc_simulation", "setup_dc_ow_simulation", "setup_offset_simulation",
     "setup_icmr_simulation", "setup_ac_simulation", "setup_trans_simulation"}

Inserting ==
    {"setup_dc_simulation", "setup_ac_simulation", "setup_trans_simulation"}

Removing == Injecting \ Inserting

\* The data file that the directive of a transformer names
FileOf(op) ==
    CASE op = "setup_dc_simulation" -> "output_dc.dat"
      [] op = "setup_dc_ow_simulation" -> "output_dc_ow.dat"
      [] op = "setup_offset_simulation" -> "output_dc_offset.dat"
      [] op = "setup_icmr_simulation" -> "output_dc_icmr.dat"
      [] op = "setup_ac_simulation" -> "output_ac.dat"
      [] op = "setup_trans_simulation" -> "output_tran.dat"
      [] OTHER -> "none"

Count(t, pat) ==
    Cardinality({i \in 1..(Len(t) - Len(pat) + 1) :
                    SubSeq(t, i, i + Len(pat) - 1) = pat})

IsTerminator(line) == Strip(line) = <<".end">>
IsControl(line) == Strip(line) = <<".control">>
IsEndc(line) == Strip(line) = ENDC
IsEmpty(line) == Strip(line) = <<>>

TerminatorLines(t) ==
    {i \in 1..Len(SplitLines(t)) : IsTerminator(SplitLines(t)[i])}
ControlLines(t) ==
    {i \in 1..Len(SplitLines(t)) : IsControl(SplitLines(t)[i])}
EndcLines(t) ==
    {i \in 1..Len(SplitLines(t)) : IsEndc(SplitLines(t)[i])}

HasTerminator(t) == TerminatorLines(t) # {}

\* Exactly one terminator line, and only empty lines after it
OneTerminatorLast(t) ==
    /\ Cardinality(TerminatorLines(t)) = 1
    /\ \A i \in TerminatorLines(t) :
        \A j \in (i + 1)..Len(SplitLines(t)) : IsEmpty(SplitLines(t)[j])

\* Exactly one directive block: a .control line and, after it, an .endc line
OneBlock(t) ==
    /\ Cardinality(ControlLines(t)) = 1
    /\ Cardinality(EndcLines(t)) = 1
    /\ \A i \in ControlLines(t) : \A j \in EndcLines(t) : i < j

\* No directive line outside a block, and every block before the terminator
BlocksInPlace(t) ==
    /\ ControlLines(t) = {} => EndcLines(t) = {}
    /\ ControlLines(t) # {} => OneBlock(t)
    /\ \A j \in EndcLines(t) : \A k \in TerminatorLines(t) : j < k

\* The text after the directive block that names file
AfterBlock(t, file) ==
    LET f == Index(t, <<"wrdata", BLANK, file>>)
        e == f + Index(SubSeq(t, f, Len(t)), ENDC) - 1
    IN SubSeq(t, e + 2, Len(t))

\* The block that names file stands right before the terminator line, which
\* is the last line that is not empty
BlockBeforeTerminator(t, file) ==
    LET after == SplitLines(AfterBlock(t, file))
    IN /\ Count(t, <<"wrdata", BLANK, file>>) = 1
       /\ Len(after) >= 2
       /\ IsEmpty(after[1])
       /\ IsTerminator(after[2])
       /\ \A j \in 3..Len(after) : IsEmpty(after[j])

\* What the wrdata line of file records, the supply current aside
Recorded(t, file) ==
    LET f == Index(t, <<"wrdata", BLANK, file>>)
        rest == SubSeq(t, f + 3, Len(t))
        line == SubSeq(rest, 1, Index(rest, <<NL>>) - 1)
        IsNode(a) == ~IsWs(a) /\ a # "I(vdd)"
    IN SelectSeq(line, IsNode)

\* C1: for every directive-injecting transformer and every netlist with
\* exactly one terminator line (its last line, its directive lines in
\* place), the new block is inserted right before the terminator line and
\* nowhere else, and the terminator stays the last non-empty line.
C1_BlockBeforeTerminator ==
    (/\ call.op \in Injecting
     /\ result.ok
     /\ OneTerminatorLast(netlist)
     /\ BlocksInPlace(netlist))
    => BlockBeforeTerminator(result.text, FileOf(call.op))

C3_FailsIffNoTerminator ==
    (call.op # "none" /\ netlist # <<>>) =>
        /\ ~HasTerminator(netlist) => ~result.ok
        /\ HasTerminator(netlist) => result.err # NotFound

\* C4: setup_dc_simulation, setup_ac_simulation and setup_trans_simulation
\* raise on an empty output-node list, and return no netlist whose wrdata
\* line names no output node.
C4_EmptyNodesRejected ==
    call.op \in Inserting =>
        /\ call.nodes = <<>> => ~result.ok
        /\ result.ok =>
            Recorded(result.text, FileOf(call.op)) \notin {<<>>, <<"in1">>}

\* C5: setup_common_mode_simulation, given at least one line, returns as
\* many lines as it was given,
\* and every line that starts with neither "Vcm" nor "Vid" unchanged.
C5_OtherLinesUnchanged ==
    (call.op = "setup_common_mode_simulation" /\ netlist # <<>>) =>
        LET in == SplitLines(netlist)
            out == SplitLines(result.text)
        IN /\ Len(out) = Len(in)
           /\ \A i \in 1..Len(in) :
                ~(StartsWith(in[i], "Vcm") \/ StartsWith(in[i], "Vid"))
                    => out[i] = in[i]

----------------------------------------------------------------------------
(* What the claims about the stage sequence speak of *)

StageOrder == <<"DC", "Offset", "AC", "ICMR", "Transient", "CommonMode">>

StageIndex(s) ==
    IF s = "Idle" THEN 0
    ELSE IF s = "Done" THEN Len(StageOrder) + 1
    ELSE CHOOSE i \in 1..Len(StageOrder) : StageOrder[i] = s

KeysOfStage(s) ==
    CASE s = "DC" -> {"output_swing"}
      [] s = "Offset" -> {"offset_voltage"}
      [] s = "AC" -> {"bandwidth", "unity_gain_bandwidth", "phase_margin", "ac_gain"}
      [] s = "ICMR" -> {"icmr"}
      [] s = "Transient" -> {"leakage_power", "tran_gain"}
      [] s = "CommonMode" -> {"cmrr_tran", "cmrr_ac"}
      [] OTHER -> {}

KeysFrom(k) == UNION {KeysOfStage(StageOrder[j]) : j \in k..Len(StageOrder)}

Computed(r) == DOMAIN metrics[r]

\* C6: the stages of a run are entered in the order Idle, DC, Offset, AC,
\* ICMR, Transient, CommonMode, Done; the simulator invocations of a run are
\* those of the stages up to the one it is in, one each and in that order;
\* every earlier stage's invocation has exited with 0 and its metrics are
\* computed; no metric of a later stage is computed, and none of the stage's
\* own before its invocation.
C6_StagesInOrder ==
    \A r \in Runs :
        LET k == StageIndex(stage[r])
            n == Len(simlog[r])
        IN /\ stage[r] \in {"Idle", "Done"} \cup {StageOrder[i] : i \in 1..Len(StageOrder)}
           /\ n <= Len(StageOrder)
           /\ \A i \in 1..n : simlog[r][i].stage = StageOrder[i]
           /\ k = 0 => n = 0
           /\ k \in 1..Len(StageOrder) => n \in {k - 1, k}
           /\ k = Len(StageOrder) + 1 => n = Len(StageOrder)
           /\ \A j \in 1..Len(StageOrder) :
                /\ j < k => /\ KeysOfStage(StageOrder[j]) \subseteq Computed(r)
                            /\ simlog[r][j].returncode = 0
                /\ j > k => KeysOfStage(StageOrder[j]) \cap Computed(r) = {}
                /\ j > n => KeysOfStage(StageOrder[j]) \cap Computed(r) = {}

C6_Witness ==
    /\ status[1] = "done"
    /\ stage[1] = "Done"
    /\ Len(simlog[1]) = Len(StageOrder)
    /\ stage[2] = "ICMR"

\* C7: the four traces given to compute_cmrr are the AC stage's and the
\* Transient stage's outputs and, for the common mode, an AC trace and a
\* transient trace both written by the CommonMode stage's invocation.
C7_CommonModeTracesFresh ==
    \A r \in Runs :
        "cmrr_tran" \in Computed(r) =>
            LET traces == metrics[r]["cmrr_tran"]
            IN /\ traces[1].stage = "AC"
               /\ traces[2].stage = "Transient"
               /\ traces[3].stage = "CommonMode"
               /\ traces[4].stage = "CommonMode"

\* C8: once the simulator of a stage has exited non-zero, the run has raised
\* in that stage: that invocation is its last and the only one of the stage,
\* no metric of that or a later stage is computed, and the run does not end
\* with its table of metrics.
C8_AbortOnSimulatorFailure ==
    \A r \in Runs :
        failedAt[r] # "none" =>
            LET n == Len(simlog[r])
            IN /\ status[r] = "raised"
               /\ stage[r] = failedAt[r]
               /\ n >= 1
               /\ simlog[r][n].stage = failedAt[r]
               /\ simlog[r][n].returncode # 0
               /\ \A i \in 1..(n - 1) :
                    simlog[r][i].stage # failedAt[r] /\ simlog[r][i].returncode = 0
               /\ KeysFrom(StageIndex(failedAt[r])) \cap Computed(r) = {}

C8_Witness ==
    /\ failedAt[1] = "AC"
    /\ status[1] = "raised"
    /\ "output_swing" \in Computed(1)
    /\ status[2] = "done"

\* C9: every simulator invocation of a run reads the netlist that the same
\* run wrote for that stage, and every metric of a run is computed from
\* traces of simulations of that run's own netlists.
C9_RunsIsolated ==
    \A r \in Runs :
        /\ \A i \in 1..Len(simlog[r]) :
            simlog[r][i].owner = r /\ simlog[r][i].net = simlog[r][i].stage
        /\ \A k \in Computed(r) :
            \A i \in 1..Len(metrics[r][k]) : metrics[r][k][i].owner = r

\* The names of the regression fixture
MetricNames ==
    {"output_swing", "offset_voltage", "bandwidth", "unity_gain_bandwidth",
     "phase_margin", "ac_gain", "icmr", "leakage_power", "tran_gain",
     "cmrr_tran", "cmrr_ac"}

----------------------------------------------------------------------------
(* What the claims about the rewriting transformers speak of *)

LinesStarting(t, prefix) ==
    {i \in 1..Len(SplitLines(t)) : StartsWith(SplitLines(t)[i], prefix)}

NoBlocks(t) == ControlLines(t) = {} /\ EndcLines(t) = {}

\* The analysis line of the directive block that names file
Analysis(t, file) ==
    LET f == Index(t, <<"wrdata", BLANK, file>>)
    IN IF f <= 3 THEN "" ELSE t[f - 3]

\* C11: setup_dc_ow_simulation, given a netlist with one terminator line and
\* no directive block, returns a netlist without a line that starts with
\* "Vcm", "Vid", "Rl" or "Cl", with a "Vin1" line for every "Vcm" line, and
\* with a directive that sweeps Vin1 and records out and in1.
C11_DcOwRewrites ==
    (/\ call.op = "setup_dc_ow_simulation"
     /\ result.ok
     /\ OneTerminatorLast(netlist)
     /\ NoBlocks(netlist))
    => /\ LinesStarting(result.text, "Vcm") = {}
       /\ LinesStarting(result.text, "Vid") = {}
       /\ Cardinality(LinesStarting(result.text, "Vin1")) =
            Cardinality(LinesStarting(netlist, "Vcm"))
       /\ Analysis(result.text, "output_dc_ow.dat") = "dc Vin1 0 1.8 0.0001"
       /\ Recorded(result.text, "output_dc_ow.dat") = <<"out", "in1">>
       /\ LinesStarting(result.text, "Rl") = {}
       /\ LinesStarting(result.text, "Cl") = {}

UnityGain == {"setup_offset_simulation", "setup_icmr_simulation"}

\* re.sub of every whole word from by to
Renamed(line, from, to) ==
    [i \in 1..Len(line) |-> IF line[i] = from THEN to ELSE line[i]]

\* The lines before the first line that holds ".end"
Body(t) ==
    LET lines == SplitLines(t)
        ends == {i \in 1..Len(lines) : Index(lines[i], <<".end">>) # 0}
    IN SubSeq(lines, 1,
              IF ends = {} THEN Len(lines)
              ELSE (CHOOSE i \in ends : \A j \in ends : i <= j) - 1)

\* The lines that are not removed as an output load
NotLoad(line) == ~(StartsWith(line, "Rl") \/ StartsWith(line, "Cl"))

\* The directive block aside, the lines of the result before the terminator
RECURSIVE DropEmptyTail(_)
DropEmptyTail(lines) ==
    IF lines # <<>> /\ IsEmpty(lines[Len(lines)])
    THEN DropEmptyTail(SubSeq(lines, 1, Len(lines) - 1)) ELSE lines

ResultBody(t) == DropEmptyTail(Body(t))

\* C12: setup_offset_simulation and setup_icmr_simulation, given a netlist
\* with one terminator line and no directive block, a set of designators, the
\* negative input node and the output node: remove the lines that start with
\* "Rl" or "Cl"; on the lines of the designators in the set, rename the
\* negative input node to the output node; keep every other line as it is;
\* and record the output node in the directive.
C12_UnityGainRewrites ==
    (/\ call.op \in UnityGain
     /\ ~call.targets.none
     /\ result.ok
     /\ OneTerminatorLast(netlist)
     /\ NoBlocks(netlist))
    => LET kept == SelectSeq(Body(netlist), NotLoad)
           out == ResultBody(RemoveControlBlocks(result.text))
       IN /\ Len(out) = Len(kept)
          /\ \A i \in 1..Len(kept) :
                out[i] = IF IsMos(FirstWord(kept[i]))
                            /\ FirstWord(kept[i]) \in call.targets.names
                         THEN Renamed(kept[i], call.negative_input_node,
                                      call.output_node)
                         ELSE kept[i]
          /\ Recorded(result.text, FileOf(call.op)) = <<call.output_node>>

\* C13: setup_icmr_simulation and setup_offset_simulation, called without
\* target_components on a netlist that ends with its one terminator line
\* (lines of "M" designators included), return normally
\* and rewrite no component line.
C13_NoTargetsCompletes ==
    (/\ call.op \in UnityGain
     /\ call.targets.none
     /\ OneTerminatorLast(netlist)
     /\ NoBlocks(netlist))
    => /\ result.ok
       /\ ResultBody(RemoveControlBlocks(result.text)) =
            SelectSeq(Body(netlist), NotLoad)

----------------------------------------------------------------------------
(* What the claims about the metric functions speak of *)

\* The trace that a metric function reads: the lines after the first
Samples == SubSeq(logfile.lines, 2, Len(logfile.lines))

ColumnCount == Len(logfile.lines[1])

\* The frequency and the selected signal of sample i of a frequency trace
FrequencyAt(i) == Samples[i][1]
SignalAt(i) ==
    IF ColumnCount = 6 THEN [re |-> Samples[i][5], im |-> Samples[i][6]]
    ELSE [re |-> Samples[i][2], im |-> Samples[i][3]]

StrictlyIncreasing ==
    \A i, j \in 1..Len(Samples) : i < j => FrequencyAt(i) < FrequencyAt(j)

AtOrBelow0dB == {i \in 1..Len(Samples) : Db(SignalAt(i)) <= 0}

FrequencyMetrics ==
    {"compute_bandwidth", "compute_unity_gain_bandwidth",
     "compute_phase_margin", "compute_ac_gain", "compute_cmrr"}

\* C14: every frequency-trace metric function, given a table of two or more
\* rows whose column count is neither 3 nor 6, raises the ValueError that
\* names the 3- and 6-column layouts, and returns no value.
C14_LayoutErrorRaised ==
    (/\ metric.fn \in FrequencyMetrics
     /\ ColumnCount \notin {3, 6}
     /\ Len(Samples) >= 2)
    => /\ returned.kind = "raised"
       /\ returned.err = LayoutError

\* The swept input of sample i, as compute_output_swing and compute_icmr
\* read it
InputAt(i) ==
    IF metric.fn = "compute_icmr" THEN Trimmed(Samples)[i][1]
    ELSE Samples[i][4]

InputCount ==
    IF metric.fn = "compute_icmr" THEN Len(Trimmed(Samples)) ELSE Len(Samples)

MidSamples == {i \in 1..InputCount : InputAt(i) = MidRail}

\* C15: compute_output_swing and compute_icmr, given a four-column trace
\* (of two or more samples, and of one or more after the trimming of
\* compute_icmr) without a sample at the input 0.9, do not raise:
\* compute_output_swing returns 0 and compute_icmr returns a value.
C15_NoMidSampleFallback ==
    (/\ metric.fn \in {"compute_output_swing", "compute_icmr"}
     /\ ColumnCount = 4
     /\ Len(Samples) >= 2
     /\ InputCount >= 1
     /\ MidSamples = {})
    => /\ returned.kind = "value"
       /\ metric.fn = "compute_output_swing" => returned.x = Whole(0)

\* C16: compute_unity_gain_bandwidth, given a 3- or 6-column trace of
\* strictly increasing frequency with a sample at or below 0 dB, returns a
\* frequency strictly between that of the first such sample and that of the
\* sample before it.
C16_CrossingInsideBracket ==
    (/\ metric.fn = "compute_unity_gain_bandwidth"
     /\ ColumnCount \in {3, 6}
     /\ Len(Samples) >= 2
     /\ StrictlyIncreasing
     /\ AtOrBelow0dB # {})
    => LET i == First(AtOrBelow0dB)
       IN /\ returned.kind = "value"
          /\ returned.x.k = "finite"
          /\ i > 1
          /\ Less(Whole(FrequencyAt(i - 1)), returned.x)
          /\ Less(returned.x, Whole(FrequencyAt(i)))

\* C17: compute_unity_gain_bandwidth, given a 3-column trace whose signal
\* has the magnitude 1.0 at every frequency, raises and returns no value.
C17_FlatUnityRaises ==
    (/\ metric.fn = "compute_unity_gain_bandwidth"
     /\ ColumnCount = 3
     /\ Len(Samples) >= 2
     /\ StrictlyIncreasing
     /\ \A i \in 1..Len(Samples) : Magnitude(SignalAt(i)) = 10)
    => returned.kind = "raised"

\* C18: compute_bandwidth, given a 3- or 6-column trace of two or more
\* samples and of strictly increasing frequency, returns a value that is
\* greater than or equal to 0.
C18_BandwidthNotNegative ==
    (/\ metric.fn = "compute_bandwidth"
     /\ ColumnCount \in {3, 6}
     /\ Len(Samples) >= 2
     /\ StrictlyIncreasing)
    => /\ returned.kind = "value"
       /\ returned.x.k = "finite"
       /\ ~Less(returned.x, Whole(0))

C18_Witness ==
    /\ metric.fn = "compute_bandwidth"
    /\ ColumnCount = 6
    /\ Len(Samples) = 3
    /\ StrictlyIncreasing
    /\ Db(SignalAt(3)) < Db(SignalAt(1)) - 3
    /\ returned.kind = "value"
    /\ Less(Whole(0), returned.x)

\* The current of sample i of a transient trace, and the samples that differ
\* from the sample before by 5e-7 at most (currents in tenths of a
\* microampere, the supply voltage in tenths of a volt)
CurrentAt(i) == Samples[i][4]

StaticSamples ==
    {i \in 2..Len(Samples) : Abs(CurrentAt(i) - CurrentAt(i - 1)) <= 5}

\* C19: compute_leakage_power, given a transient trace of two or more
\* samples and four or more columns, returns None exactly when no sample's
\* current differs from that of the sample before by 5e-7 at most, and
\* otherwise |mean of the currents of these samples| * 1.8, which is not
\* negative; given a trace of one sample or of fewer columns it raises.
C19_LeakageOfStaticSamples ==
    metric.fn = "compute_leakage_power" =>
        IF Len(Samples) < 2 \/ ColumnCount < 4
        THEN returned.kind = "raised" /\ returned.err = ColumnsError
        ELSE /\ returned.kind \in {"none", "value"}
             /\ returned.kind = "none" <=> StaticSamples = {}
             /\ returned.kind = "value" =>
                  /\ returned.x.k = "finite"
                  /\ returned.x.num * Cardinality(StaticSamples) =
                        Abs(SumOf([i \in 1..Len(Samples) |-> CurrentAt(i)],
                                  StaticSamples)) * 18 * returned.x.den
                  /\ ~Less(returned.x, Whole(0))

C19_Witness ==
    /\ metric.fn = "compute_leakage_power"
    /\ ColumnCount = 6
    /\ Len(Samples) = 3
    /\ Cardinality(StaticSamples) = 1
    /\ Abs(CurrentAt(2) - CurrentAt(1)) = 5
    /\ returned.kind = "value"
    /\ Less(Whole(0), returned.x)

\* The difference quotient of sample i of a sweep, and the samples whose gain
\* is above 0.8 times the mid-band gain, which is the gain of the first
\* sample at the input 0.9: |d|^5 > |d_mid|^4, a quotient of 0 counting as
\* 1e-10
SlopeAt(i) ==
    Gradient([k \in 1..Len(Samples) |-> Samples[k][2]],
             [k \in 1..Len(Samples) |-> Samples[k][4]], i)

MidSlope == SlopeAt(First(MidSamples))

InBand(i) ==
    /\ SlopeAt(i).num # 0
    /\ \/ MidSlope.num = 0
       \/ Power(Abs(SlopeAt(i).num), 5) * Power(MidSlope.den, 4)
            > Power(Abs(MidSlope.num), 4) * Power(SlopeAt(i).den, 5)

Passband == {i \in 1..Len(Samples) : InBand(i)}

MidGainPositive == Abs(MidSlope.num) > MidSlope.den

AboveMidGain(i) ==
    Abs(SlopeAt(i).num) * MidSlope.den > Abs(MidSlope.num) * SlopeAt(i).den

SwingCall ==
    /\ metric.fn = "compute_output_swing"
    /\ ColumnCount = 4
    /\ Len(Samples) >= 2
    /\ MidSamples # {}

\* C20, as claimed: compute_output_swing returns 0 when every gain sample is
\* at most 0.8 times the mid-band gain, and a value above 0 when the mid-band
\* gain is positive and the gain of some sample is above it.
C20_SwingPositive ==
    SwingCall =>
        /\ returned.kind = "value"
        /\ Passband = {} => returned.x = Whole(0)
        /\ (MidGainPositive /\ \E i \in 1..Len(Samples) : AboveMidGain(i))
              => Less(Whole(0), returned.x)

\* C20, amended: compute_output_swing returns 0 when no gain sample is above
\* 0.8 times the mid-band gain, and otherwise the greatest output less the
\* least output of the samples whose gain is above it, which is not
\* negative and is 0 when these samples have one output.
C20_SwingOverPassband ==
    SwingCall =>
        /\ returned.kind = "value"
        /\ returned.x.k = "finite"
        /\ returned.x.den = 1
        /\ Passband = {} => returned.x.num = 0
        /\ Passband # {} =>
             \E hi, lo \in Passband :
                /\ \A k \in Passband :
                     Samples[lo][2] <= Samples[k][2]
                     /\ Samples[k][2] <= Samples[hi][2]
                /\ returned.x.num = Samples[hi][2] - Samples[lo][2]
        /\ returned.x.num >= 0

C20_Witness ==
    /\ SwingCall
    /\ MidGainPositive
    /\ \E i \in 1..Len(Samples) : AboveMidGain(i)
    /\ Cardinality(Passband) >= 2
    /\ returned.kind = "value"
    /\ Less(Whole(0), returned.x)

----------------------------------------------------------------------------
(* What the claims about compute_cmrr speak of *)

\* The columns of a table that hold a signal: the real and the imaginary
\* part of a frequency trace, the value after each time of a transient trace
SignalColumns(file) ==
    IF file.kind = "ac"
    THEN (CASE Len(file.lines[1]) = 3 -> {2, 3}
            [] Len(file.lines[1]) = 4 -> {2, 4}
            [] Len(file.lines[1]) = 6 -> {2, 3, 5, 6})
    ELSE {2, 4, 6}

\* The file with every signal ten times as large
Scaled(file) ==
    [kind |-> file.kind,
     lines |-> [i \in 1..Len(file.lines) |->
                  [c \in 1..Len(file.lines[i]) |->
                      IF c \in SignalColumns(file) THEN 10 * file.lines[i][c]
                      ELSE file.lines[i][c]]]]

CmrrCall == metric.fn = "compute_cmrr"

\* C21: compute_cmrr yields the same pair (or the same error) when the
\* signal columns of its four files are all multiplied by 10.
C21_CmrrScaleInvariant ==
    CmrrCall =>
        compute_cmrr(Scaled(logfile), Scaled(metric.others[1]),
                     Scaled(metric.others[2]), Scaled(metric.others[3]))
            = returned

C21_Witness ==
    /\ CmrrCall
    /\ returned.kind = "pair"
    /\ returned.x = Whole(40)
    /\ returned.y = Whole(20)

----------------------------------------------------------------------------
(* What the claims about the phase margin and the unity-gain bandwidth     *)
(* speak of                                                                *)

PhaseMargins == {"compute_phase_margin", "extractor.compute_phase_margin"}

\* The first of the samples whose magnitude in dB is nearest to 0 dB
NearestTo0dB ==
    First({i \in 1..Len(Samples) :
            \A j \in 1..Len(Samples) :
                Abs(Db(SignalAt(i))) <= Abs(Db(SignalAt(j)))})

StartingPhase == Phase(SignalAt(1))

\* The phase margin by the starting phase of the sweep
Classified ==
    IF Abs(StartingPhase - 180) <= 15 THEN Phase(SignalAt(NearestTo0dB))
    ELSE IF Abs(StartingPhase) <= 15
    THEN 180 - Abs(Phase(SignalAt(NearestTo0dB)))
    ELSE 0

\* C23: compute_phase_margin of spmetrics.metrics and of spmetrics.extractor,
\* given a 3- or 6-column trace of two or more samples, returns the phase at
\* the sample nearest to 0 dB when the starting phase is within 15 degrees
\* of 180, 180 minus the absolute value of that phase when the starting
\* phase is within 15 degrees of 0, and 0 otherwise.
C23_PhaseMarginClassified ==
    (/\ metric.fn \in PhaseMargins
     /\ ColumnCount \in {3, 6}
     /\ Len(Samples) >= 2)
    => /\ returned.kind = "value"
       /\ returned.x = Whole(Classified)

UnityCall ==
    /\ metric.fn = "compute_unity_gain_bandwidth"
    /\ ColumnCount \in {3, 6}
    /\ Len(Samples) >= 2

\* x is where the line through (f1, g1) and (f2, g2) is at 0 dB
Interpolates(x, f1, g1, f2, g2) ==
    /\ x.k = "finite"
    /\ x.num * (g2 - g1) = x.den * (f1 * (g2 - g1) + (0 - g1) * (f2 - f1))

----------------------------------------------------------------------------
(* What the claims about compute_icmr and compute_offset speak of *)

\* The samples that are neither among the first 19 nor among the last 19
Kept == {i \in 1..Len(Samples) : 19 < i /\ i <= Len(Samples) - 19}

SweptAt(i) == Samples[i][1]
OffsetAt(i) == Abs(Samples[i][2] - Samples[i][1])
SupplyAt(i) == Abs(Samples[i][4])

\* The supply current at the first kept sample of input 0.9, and the largest
\* offset of the kept samples
Quiescent == SupplyAt(First({i \in Kept : SweptAt(i) = 9}))
LargestOffset == CHOOSE v \in {OffsetAt(i) : i \in Kept} :
                    \A i \in Kept : OffsetAt(i) <= v

\* The samples whose current is above 90% of the quiescent current, and
\* those whose offset is below 90% of the largest offset
CurrentRange == {i \in Kept : 10 * SupplyAt(i) > 9 * Quiescent}
OffsetRange == {i \in Kept : 10 * OffsetAt(i) < 9 * LargestOffset}

\* The least and the greatest input of a range of samples
Lower(range) == CHOOSE v \in {SweptAt(i) : i \in range} :
                    \A i \in range : v <= SweptAt(i)
Upper(range) == CHOOSE v \in {SweptAt(i) : i \in range} :
                    \A i \in range : SweptAt(i) <= v

IcmrCall ==
    /\ metric.fn = "compute_icmr"
    /\ Len(Samples) >= 39
    /\ \E i \in Kept : SweptAt(i) = 9

C30_IcmrNotNegative ==
    (/\ IcmrCall
     /\ \A i, j \in 1..Len(Samples) : i < j => SweptAt(i) <= SweptAt(j)
     /\ \A i \in 1..Len(Samples) : SweptAt(i) \in 0..18)
    => /\ returned.kind = "value"
       /\ returned.x.k = "finite"
       /\ ~Less(returned.x, Whole(0))

\* C26: compute_offset, given a trace of 39 or more samples, returns the
\* largest |output - input| of the samples that are neither among the first
\* 19 nor among the last 19; given a trace of 2 to 38 samples it raises,
\* for no sample is left.
C26_OffsetOfKeptSamples ==
    (metric.fn = "compute_offset" /\ Len(Samples) >= 2) =>
        IF Len(Samples) >= 39
        THEN returned.kind = "value" /\ returned.x = Whole(LargestOffset)
        ELSE returned.kind = "raised" /\ returned.err = EmptyError

C26_Witness ==
    /\ metric.fn = "compute_offset"
    /\ Len(Samples) >= 39
    /\ \A i \in Kept : OffsetAt(i) < OffsetAt(1)
    /\ \A i \in Kept : OffsetAt(i) < OffsetAt(Len(Samples))
    /\ \E i, j \in Kept : OffsetAt(i) < OffsetAt(j)
    /\ returned.kind = "value"
    /\ returned.x = Whole(1)

----------------------------------------------------------------------------
(* What the claims about the files of compute_cmrr speak of *)

\* What compute_ac_gain and compute_tran_gain return for the files of the
\* call: the differential and the common-mode frequency trace, the
\* differential and the common-mode transient trace
AcGainDiff == compute_ac_gain(logfile)
AcGainCm == compute_ac_gain(metric.others[2])
TranGainDiff == compute_tran_gain(metric.others[1])
TranGainCm == compute_tran_gain(metric.others[3])

\* x = a - b, of finite values
IsDifference(x, a, b) ==
    /\ x.k = "finite"
    /\ x.num * a.den * b.den = x.den * (a.num * b.den - b.num * a.den)

\* C27: compute_cmrr, given files for which compute_ac_gain and
\* compute_tran_gain return finite values, returns as cmrr_ac the difference
\* of the two values of compute_ac_gain and as cmrr_tran the difference of
\* the two values of compute_tran_gain: it reads the same rows as they do.
C27_CmrrReadsLikeOthers ==
    (/\ CmrrCall
     /\ \A g \in {AcGainDiff, AcGainCm, TranGainDiff, TranGainCm} :
            g.kind = "value" /\ g.x.k = "finite")
    => /\ returned.kind = "pair"
       /\ IsDifference(returned.x, TranGainDiff.x, TranGainCm.x)
       /\ IsDifference(returned.y, AcGainDiff.x, AcGainCm.x)

\* The selected signal of the first line of the common-mode frequency trace,
\* in the columns of a trace of the given column count
CmSignal(columns) ==
    LET line == metric.others[2].lines[1]
    IN IF columns = 3 THEN [re |-> line[2], im |-> line[3]]
       ELSE [re |-> line[5], im |-> line[6]]

\* C29: compute_cmrr, given a differential frequency trace of 3 or 6 columns
\* and two or more lines, reads the common-mode signal from the columns 1-2
\* when the differential trace has 3 columns and from the columns 4-5 when it
\* has 6, whatever the column count of the common-mode trace; when that
\* trace has no columns 4-5 it raises IndexError.
C29_CmColumnsFromDiffLayout ==
    (CmrrCall /\ ColumnCount \in {3, 6} /\ Len(logfile.lines) >= 2) =>
        IF ColumnCount = 6 /\ Len(metric.others[2].lines[1]) < 6
        THEN returned.kind = "raised" /\ returned.err = IndexError
        ELSE /\ returned.kind = "pair"
             /\ returned.y =
                  Whole(Db([re |-> logfile.lines[1][ColumnCount - 1],
                            im |-> logfile.lines[1][ColumnCount]])
                        - Db(CmSignal(ColumnCount)))

C29_Witness ==
    /\ CmrrCall
    /\ ColumnCount = 3
    /\ Len(metric.others[2].lines[1]) = 6
    /\ Db(CmSignal(3)) # Db(CmSignal(6))
    /\ returned.kind = "pair"
    /\ returned.y = Whole(40)

====
